---- MODULE Spec2Model ----
(***************************************************************************)
(* A model of ashlar's view layer (ashlar/views.py): the versioned chain   *)
(* of RecordSchemas per RecordType, the Records bound to them, the record  *)
(* aggregations (toddow, recent_counts), the `query` diagnostic of the     *)
(* record list, and Boundary creation.                                     *)
(*                                                                         *)
(* Rows are kept in functions from primary key (1, 2, ...) to the row.     *)
(* A request that the framework runs in several steps (the schema create:  *)
(* get_serializer, then serializer.save) is one action per step, so that   *)
(* requests of several callers interleave.                                 *)
(***************************************************************************)
EXTENDS Integers, Sequences, FiniteSets, TLC

\* ---------------------------------------------------------------- bounds
NumCallers == 2
MaxSchemas == 3
MaxRecords == 3
MaxBoundaries == 3

\* The clock starts at 1971-01-01T00:00Z, in hours since the epoch.
StartOfClock == 365 * 24

\* The clock is followed for one hour.
EndOfClock == StartOfClock + 1

Callers == 1..NumCallers
RecordTypes == {"incident", "intervention"}
Documents == {"docA", "docB"}

\* The null reference of next_version (null=True in the migration).
NULL == 0

\* The record_type of request data that has no 'record_type' key.
Absent == "absent"

VARIABLES
    schemas,     \* pk -> [record_type, version, schema, next_version]
    pending,     \* caller -> the schema create request it has in flight
    records,     \* pk -> [schema, occurred_from]
    now,         \* the clock read by datetime.now(), in hours since the epoch
    boundaries,  \* pk -> [label]
    polygons,    \* pk -> [boundary, geom]
    resp         \* the response to the last request answered

vars == <<schemas, pending, records, now, boundaries, polygons, resp>>

Idle == [pc |-> "idle"]

NoResponse == [op |-> "none", status |-> 0]

Max(S) == CHOOSE x \in S : \A y \in S : y <= x

NewPk(table) == IF DOMAIN table = {} THEN 1 ELSE Max(DOMAIN table) + 1

Insert(table, row) == [pk \in DOMAIN table \cup {NewPk(table)} |->
                          IF pk \in DOMAIN table THEN table[pk] ELSE row]

Delete(table, pk) == [k \in DOMAIN table \ {pk} |-> table[k]]

RECURSIVE order_geoms(_)
order_geoms(S) ==
    IF S = {} THEN <<>>
    ELSE LET g == CHOOSE x \in S : TRUE IN <<g>> \o order_geoms(S \ {g})

\* ------------------------------------------------------------ SchemaStore

\* RecordSchema.objects.filter(record_type=rt, next_version=None)
Heads(rt) == {pk \in DOMAIN schemas :
                 schemas[pk].record_type = rt /\ schemas[pk].next_version = NULL}

InFlight == {c \in Callers : pending[c].pc # "idle"}

\* Variants of head_version with a plausible slip, used to show that the
\* properties below depend on it.
head_version_no_increment(rt) ==
    LET found == Heads(rt) IN
    IF Cardinality(found) = 1
    THEN LET h == CHOOSE pk \in found : TRUE
         IN  [raised |-> "none", version |-> schemas[h].version, head |-> h]
    ELSE IF found = {}
    THEN [raised |-> "none", version |-> 1, head |-> NULL]
    ELSE [raised |-> "MultipleObjectsReturned"]

head_version_swallow_multiple(rt) ==
    LET found == Heads(rt) IN
    IF Cardinality(found) = 1
    THEN LET h == CHOOSE pk \in found : TRUE
         IN  [raised |-> "none", version |-> schemas[h].version + 1, head |-> h]
    ELSE [raised |-> "none", version |-> 1, head |-> NULL]

\* try: RecordSchema.objects.get(record_type=rt, next_version=None).version + 1
\* except RecordSchema.DoesNotExist: 1
\* get() raises MultipleObjectsReturned on two or more rows, which the except
\* clause does not catch.  head is the row get() returned (NULL: none).
head_version(rt) ==
    LET found == Heads(rt) IN
    IF Cardinality(found) = 1
    THEN LET h == CHOOSE pk \in found : TRUE
         IN  [raised |-> "none", version |-> schemas[h].version + 1, head |-> h]
    ELSE IF found = {}
    THEN [raised |-> "none", version |-> 1, head |-> NULL]
    ELSE [raised |-> "MultipleObjectsReturned"]

\* The SchemaViewSet as a ModelViewSet would be (update and destroy mixed in).
SchemaViewSet_with_update == {"list", "create", "retrieve", "update", "destroy"}

\* The mixins of SchemaViewSet: the actions its routes accept.  Any other
\* method is answered 405 by the framework.
SchemaViewSet == {"list", "create", "retrieve"}

MethodNotAllowed(op) == [op |-> op, status |-> 405]

\* POST of a schema, first step: the view builds the serializer, injecting
\* the version.  rt = Absent is a request whose data has no 'record_type': no
\* version is injected and the data is rejected as invalid.
get_serializer(c, rt, doc) ==
    /\ pending[c].pc = "idle"
    /\ Cardinality(DOMAIN schemas) + Cardinality(InFlight) < MaxSchemas
    /\ IF rt = Absent
       THEN /\ resp' = [op |-> "create_schema", status |-> 400]
            /\ UNCHANGED pending
       ELSE LET hv == head_version(rt) IN
            IF hv.raised # "none"
            THEN /\ resp' = [op |-> "create_schema", status |-> 500,
                             error |-> hv.raised, record_type |-> rt]
                 /\ UNCHANGED pending
            ELSE /\ pending' = [pending EXCEPT ![c] =
                                   [pc |-> "save", record_type |-> rt, schema |-> doc,
                                    version |-> hv.version, head |-> hv.head]]
                 /\ UNCHANGED resp
    /\ UNCHANGED <<schemas, records, now, boundaries, polygons>>

\* A variant of save that binds records by reference to "the current schema":
\* the records of the superseded head follow the chain to the new row.
save_rebinding_records(c) ==
    /\ pending[c].pc = "save"
    /\ LET p == pending[c]
           new == NewPk(schemas)
           row == [record_type |-> p.record_type, version |-> p.version,
                   schema |-> p.schema, next_version |-> NULL]
           linked == IF p.head = NULL THEN schemas
                     ELSE [schemas EXCEPT ![p.head].next_version = new]
       IN  /\ schemas' = Insert(linked, row)
           /\ records' = [r \in DOMAIN records |->
                             IF records[r].schema = p.head
                             THEN [records[r] EXCEPT !.schema = new]
                             ELSE records[r]]
           /\ resp' = [op |-> "create_schema", status |-> 201, pk |-> new,
                       version |-> p.version]
    /\ pending' = [pending EXCEPT ![c] = Idle]
    /\ UNCHANGED <<now, boundaries, polygons>>

\* POST of a schema, second step: serializer.save() writes the new row with
\* the injected version and links the head found to it, in one transaction.
save(c) ==
    /\ pending[c].pc = "save"
    /\ LET p == pending[c]
           new == NewPk(schemas)
           row == [record_type |-> p.record_type, version |-> p.version,
                   schema |-> p.schema, next_version |-> NULL]
           linked == IF p.head = NULL THEN schemas
                     ELSE [schemas EXCEPT ![p.head].next_version = new]
       IN  /\ schemas' = Insert(linked, row)
           /\ resp' = [op |-> "create_schema", status |-> 201, pk |-> new,
                       version |-> p.version]
    /\ pending' = [pending EXCEPT ![c] = Idle]
    /\ UNCHANGED <<records, now, boundaries, polygons>>

\* GET of the schema list.
list_schemas ==
    /\ resp' = [op |-> "list_schemas", status |-> 200, body |-> schemas]
    /\ UNCHANGED <<schemas, pending, records, now, boundaries, polygons>>

\* GET of one schema.
retrieve_schema(pk) ==
    /\ resp' = IF pk \in DOMAIN schemas
               THEN [op |-> "retrieve_schema", status |-> 200, body |-> schemas[pk]]
               ELSE [op |-> "retrieve_schema", status |-> 404]
    /\ UNCHANGED <<schemas, pending, records, now, boundaries, polygons>>

\* PUT of a schema: SchemaViewSet mixes no UpdateModelMixin in.
update_schema(pk, doc) ==
    /\ IF "update" \notin SchemaViewSet
       THEN /\ resp' = MethodNotAllowed("update_schema")
            /\ UNCHANGED schemas
       ELSE IF pk \in DOMAIN schemas
       THEN /\ schemas' = [schemas EXCEPT ![pk].schema = doc]
            /\ resp' = [op |-> "update_schema", status |-> 200]
       ELSE /\ resp' = [op |-> "update_schema", status |-> 404]
            /\ UNCHANGED schemas
    /\ UNCHANGED <<pending, records, now, boundaries, polygons>>

\* DELETE of a schema: SchemaViewSet mixes no DestroyModelMixin in.
destroy_schema(pk) ==
    /\ IF "destroy" \notin SchemaViewSet
       THEN /\ resp' = MethodNotAllowed("destroy_schema")
            /\ UNCHANGED schemas
       ELSE IF pk \in DOMAIN schemas
       THEN /\ schemas' = Delete(schemas, pk)
            /\ resp' = [op |-> "destroy_schema", status |-> 204]
       ELSE /\ resp' = [op |-> "destroy_schema", status |-> 404]
            /\ UNCHANGED schemas
    /\ UNCHANGED <<pending, records, now, boundaries, polygons>>

\* ------------------------------------------------------- RecordRepository

\* POST of a record of type rt that occurred at t: it is bound to the pk of
\* the schema that is current for rt; 404 when rt has no schema.
create_record(rt, t) ==
    /\ Cardinality(DOMAIN records) < MaxRecords
    /\ IF Heads(rt) = {}
       THEN /\ resp' = [op |-> "create_record", status |-> 404]
            /\ UNCHANGED records
       ELSE \E h \in Heads(rt) :
            /\ records' = Insert(records, [schema |-> h, occurred_from |-> t])
            /\ resp' = [op |-> "create_record", status |-> 201,
                        pk |-> NewPk(records), schema |-> h]
    /\ UNCHANGED <<schemas, pending, now, boundaries, polygons>>

\* ------------------------------------------------------------ QueryEngine

HoursPerDay == 24

\* occurred_from__hour: the hour of day of a time given in hours since the
\* epoch (TIME_ZONE = 'UTC').
Hour(t) == t % HoursPerDay

\* occurred_from__week_day: 1 = Sunday .. 7 = Saturday; 1970-01-01, day 0,
\* was a Thursday (5).
WeekDay(t) == (((t \div HoursPerDay) + 4) % 7) + 1

\* The value of a Case expression none of whose When clauses matches.
SqlNull == -1

\* xrange(24) with its last hour lost.
tod_values_short == 0..22

\* xrange(24)
tod_values == 0..23

\* xrange(1, 8)
dow_values == 1..7

\* Case(*[When(occurred_from__hour=x, then=Value(x)) for x in xrange(24)])
tod_case(t) ==
    LET hit == {x \in tod_values : Hour(t) = x}
    IN  IF hit = {} THEN SqlNull ELSE CHOOSE x \in hit : \A y \in hit : x <= y

\* Case(*[When(occurred_from__week_day=x, then=Value(x)) for x in xrange(1, 8)])
dow_case(t) ==
    LET hit == {x \in dow_values : WeekDay(t) = x}
    IN  IF hit = {} THEN SqlNull ELSE CHOOSE x \in hit : \A y \in hit : x <= y

\* The request's filter parameters are a dictionary, as request.GET is.  The
\* DateRangeFilterBackend keeps the records whose occurred_from lies in
\* [occurred_min, occurred_max], either bound optional.
filter_queryset(GET) ==
    {r \in DOMAIN records :
        /\ ("occurred_min" \in DOMAIN GET => records[r].occurred_from >= GET["occurred_min"])
        /\ ("occurred_max" \in DOMAIN GET => records[r].occurred_from <= GET["occurred_max"])}

\* ORDER BY tod, dow
GroupBefore(g, h) == g.tod < h.tod \/ (g.tod = h.tod /\ g.dow <= h.dow)

RECURSIVE order_by(_)
order_by(G) ==
    IF G = {} THEN <<>>
    ELSE LET first == CHOOSE g \in G : \A h \in G : GroupBefore(g, h)
         IN  <<first>> \o order_by(G \ {first})

\* qryset.annotate(dow=..).annotate(tod=..).values('tod', 'dow')
\*       .order_by('tod', 'dow').annotate(count=Count('tod')):
\* GROUP BY tod, dow with COUNT(tod), which counts the rows whose tod is not null.
counted(qryset) ==
    LET annotated == [r \in qryset |->
                         [tod |-> tod_case(records[r].occurred_from),
                          dow |-> dow_case(records[r].occurred_from)]]
        groups == {annotated[r] : r \in qryset}
        count(g) == Cardinality({r \in qryset :
                                    annotated[r] = g /\ annotated[r].tod # SqlNull})
    IN  order_by({[tod |-> g.tod, dow |-> g.dow, count |-> count(g)] : g \in groups})

\* GET records/toddow
toddow(GET) ==
    /\ resp' = [op |-> "toddow", status |-> 200, GET |-> GET,
                body |-> counted(filter_queryset(GET))]
    /\ UNCHANGED <<schemas, pending, records, now, boundaries, polygons>>

\* cursor.mogrify(sql, params): the text of the composed query, the filter's
\* parameters written in as literals.
mogrify(GET) ==
    <<"SELECT", "FROM", "ashlar_record">>
    \o (IF "occurred_min" \in DOMAIN GET
        THEN <<"occurred_from", ">=", ToString(GET["occurred_min"])>> ELSE <<>>)
    \o (IF "occurred_max" \in DOMAIN GET
        THEN <<"occurred_from", "<=", ToString(GET["occurred_max"])>> ELSE <<>>)

RECURSIVE rows_by_pk(_)
rows_by_pk(S) ==
    IF S = {} THEN <<>>
    ELSE LET first == CHOOSE r \in S : \A q \in S : r <= q
         IN  <<[pk |-> first, schema |-> records[first].schema,
                occurred_from |-> records[first].occurred_from]>>
             \o rows_by_pk(S \ {first})

\* A list that answers every request with the records, flag or not, and
\* one that adds the query text to the records.
list_ignoring_query(GET) ==
    /\ resp' = [op |-> "list_records", status |-> 200, GET |-> GET,
                body |-> [results |-> rows_by_pk(filter_queryset(GET)),
                          query |-> mogrify(GET)]]
    /\ UNCHANGED <<schemas, pending, records, now, boundaries, polygons>>

\* GET records/: `query` in the parameters asks for the SQL of the query
\* instead of its results.
list(GET) ==
    /\ IF "query" \in DOMAIN GET
       THEN resp' = [op |-> "list_records", status |-> 200, GET |-> GET,
                     body |-> [query |-> mogrify(GET)]]
       ELSE resp' = [op |-> "list_records", status |-> 200, GET |-> GET,
                     body |-> [results |-> rows_by_pk(filter_queryset(GET))]]
    /\ UNCHANGED <<schemas, pending, records, now, boundaries, polygons>>

\* durations = {'month': 30, 'quarter': 90, 'year': 365}
durations == [month |-> 30, quarter |-> 90, year |-> 365]

\* Only the current schema of the type, in place of all of them.
type_schemas_current_only(rt) == Heads(rt)

\* record_type.schemas.all()
type_schemas(rt) == {pk \in DOMAIN schemas : schemas[pk].record_type = rt}

\* schema.record_set.filter(occurred_from__lte=now,
\*                          occurred_from__gte=now - timedelta(days=days)).count()
window_count(s, days) ==
    Cardinality({r \in DOMAIN records :
                    /\ records[r].schema = s
                    /\ records[r].occurred_from <= now
                    /\ records[r].occurred_from >= now - days * HoursPerDay})

\* for schema in record_type.schemas.all(): counts[label] += count
RECURSIVE sum_counts(_, _)
sum_counts(S, days) ==
    IF S = {} THEN 0
    ELSE LET s == CHOOSE x \in S : TRUE
         IN  window_count(s, days) + sum_counts(S \ {s}, days)

\* GET recordtypes/<pk>/recent_counts
recent_counts(rt) ==
    /\ resp' = [op |-> "recent_counts", status |-> 200, record_type |-> rt,
                body |-> [label \in DOMAIN durations |->
                             sum_counts(type_schemas(rt), durations[label])]]
    /\ UNCHANGED <<schemas, pending, records, now, boundaries, polygons>>

\* An hour passes.
tick ==
    /\ now < EndOfClock
    /\ now' = now + 1
    /\ UNCHANGED <<schemas, pending, records, boundaries, polygons, resp>>

\* --------------------------------------------------------- BoundaryEngine

BoundaryLabels == {"north", "south", "east", "west"}
Geometries == {"squareA", "squareB"}

Labels(table) == {table[pk].label : pk \in DOMAIN table}

\* super().create(): the serializer saves the Boundary and then its polygons.
\* The insert of a Boundary whose label exists violates the uniqueness
\* constraint: IntegrityError, and nothing is written.
perform_create(label, geoms) ==
    IF label \in Labels(boundaries)
    THEN [raised |-> "IntegrityError", boundaries |-> boundaries, polygons |-> polygons]
    ELSE LET new == NewPk(boundaries)
             first == NewPk(polygons)
             order == order_geoms(geoms)
         IN  [raised |-> "none",
              boundaries |-> Insert(boundaries, [label |-> label]),
              polygons |-> [pk \in DOMAIN polygons \cup (first..(first + Len(order) - 1)) |->
                               IF pk \in DOMAIN polygons THEN polygons[pk]
                               ELSE [boundary |-> new, geom |-> order[pk - first + 1]]]]

\* A create without the except clause: the IntegrityError reaches the
\* framework, which answers 500.
create_uncaught(label, geoms) ==
    /\ (label \in Labels(boundaries) \/ Cardinality(DOMAIN boundaries) < MaxBoundaries)
    /\ LET done == perform_create(label, geoms)
       IN  /\ boundaries' = done.boundaries
           /\ polygons' = done.polygons
           /\ resp' = [op |-> "create_boundary", label |-> label,
                       status |-> IF done.raised = "IntegrityError" THEN 500 ELSE 201]
    /\ UNCHANGED <<schemas, pending, records, now>>

\* POST of a Boundary:
\* try: super().create()  except IntegrityError: 409 CONFLICT
create(label, geoms) ==
    /\ (label \in Labels(boundaries) \/ Cardinality(DOMAIN boundaries) < MaxBoundaries)
    /\ LET done == perform_create(label, geoms)
       IN  IF done.raised = "IntegrityError"
           THEN /\ resp' = [op |-> "create_boundary", label |-> label, status |-> 409,
                            error |-> "uniqueness constraint violation"]
                /\ UNCHANGED <<boundaries, polygons>>
           ELSE /\ boundaries' = done.boundaries
                /\ polygons' = done.polygons
                /\ resp' = [op |-> "create_boundary", label |-> label, status |-> 201]
    /\ UNCHANGED <<schemas, pending, records, now>>

\* GET boundaries/<pk>/geojson: the polygons of the boundary as a
\* FeatureCollection; 404 from get_object() when there is no such boundary.
geojson(pk) ==
    /\ resp' = IF pk \in DOMAIN boundaries
               THEN [op |-> "geojson", status |-> 200,
                     body |-> [type |-> "FeatureCollection",
                               features |-> {polygons[g].geom : g \in
                                   {q \in DOMAIN polygons : polygons[q].boundary = pk}}]]
               ELSE [op |-> "geojson", status |-> 404]
    /\ UNCHANGED <<schemas, pending, records, now, boundaries, polygons>>

\* ------------------------------------------------------------------ specs


Init ==
    /\ schemas = <<>>
    /\ pending = [c \in Callers |-> Idle]
    /\ records = <<>>
    /\ now = StartOfClock
    /\ boundaries = <<>>
    /\ polygons = <<>>
    /\ resp = NoResponse

\* Schema requests of concurrent callers, interleaved step by step.
Next ==
    \/ \E c \in Callers, rt \in RecordTypes \cup {Absent}, doc \in Documents :
          get_serializer(c, rt, doc)
    \/ \E c \in Callers : save(c)
    \/ list_schemas
    \/ \E pk \in 1..MaxSchemas : retrieve_schema(pk)
    \/ \E pk \in 1..MaxSchemas, doc \in Documents : update_schema(pk, doc)
    \/ \E pk \in 1..MaxSchemas : destroy_schema(pk)

Spec == Init /\ [][Next]_vars

\* Schema creates one at a time (a create starts only when no other is in
\* flight), and records created between them.
NextSeq ==
    \/ \E c \in Callers, rt \in RecordTypes \cup {Absent} :
          InFlight = {} /\ get_serializer(c, rt, "docA")
    \/ \E c \in Callers : save(c)
    \/ list_schemas
    \/ \E pk \in 1..MaxSchemas : retrieve_schema(pk)
    \/ \E rt \in RecordTypes : create_record(rt, now)

SpecSeq == Init /\ [][NextSeq]_vars

\* The first schema create of a caller, run to its end, and so on: the creates
\* of one client, that waits for each answer.
create_schema_of(c, rt, doc) == InFlight = {} /\ get_serializer(c, rt, doc)

\* Times of day and days of the week: 0 and 168 are both (0 h, Thursday), 13
\* is (13 h, Thursday), 71 is (23 h, Saturday), 96 is (0 h, Monday).
ToddowTimes == {0, 13, 71, 96, 168}

ToddowRequests ==
    LET none == [k \in {} |-> 0]
        from == [k \in {"occurred_min"} |-> 13]
        upto == [k \in {"occurred_max"} |-> 96]
        both == [k \in {"occurred_min", "occurred_max"} |->
                    IF k = "occurred_min" THEN 13 ELSE 96]
    IN  {none, from, upto, both}

WithQuery(GET) == [k \in DOMAIN GET \cup {"query"} |->
                      IF k \in DOMAIN GET THEN GET[k] ELSE 1]

\* Records of one type under its first schema, created at chosen times, and
\* the record list and the toddow aggregation asked for under chosen filters.
NextToddow ==
    \/ DOMAIN schemas = {} /\ create_schema_of(1, "incident", "docA")
    \/ save(1)
    \/ \E t \in ToddowTimes : create_record("incident", t)
    \/ \E GET \in ToddowRequests : toddow(GET)
    \/ \E GET \in ToddowRequests : list(GET)
    \/ \E GET \in ToddowRequests : list(WithQuery(GET))

SpecToddow == Init /\ [][NextToddow]_vars

\* Times at the edges of the windows as the clock starts: a year and a month
\* before (an hour later they have left the year and the month), and an hour
\* ahead.
CountTimes == {StartOfClock - 365 * 24, StartOfClock - 30 * 24, StartOfClock + 1}

\* Schemas of two types created over time, records of the one at the chosen
\* times and of the other a month before the start, and the recent counts
\* asked for.
NextCounts ==
    \/ \E rt \in RecordTypes : create_schema_of(1, rt, "docA")
    \/ save(1)
    \/ \E t \in CountTimes : create_record("incident", t)
    \/ create_record("intervention", StartOfClock - 30 * 24)
    \/ \E rt \in RecordTypes : recent_counts(rt)
    \/ tick

SpecCounts == Init /\ [][NextCounts]_vars

\* Boundaries created with one or more polygons, under labels new and used.
NextBoundary ==
    \/ \E label \in BoundaryLabels, geoms \in (SUBSET Geometries) \ {{}} :
          create(label, geoms)
    \/ \E pk \in 1..MaxBoundaries : geojson(pk)

SpecBoundary == Init /\ [][NextBoundary]_vars

\* ----------------------------------------------------- the version chain

SchemasOf(rt) == {pk \in DOMAIN schemas : schemas[pk].record_type = rt}

\* C1: no two schemas of one RecordType carry the same version number,
\* whatever the interleaving of the callers' create requests.
C1_NoDuplicateVersions ==
    \A i \in DOMAIN schemas, j \in DOMAIN schemas :
        (i # j /\ schemas[i].record_type = schemas[j].record_type)
            => schemas[i].version # schemas[j].version

\* C2: every RecordType has at most one schema with next_version = null, and
\* exactly one once it has a schema.
C2_OneHeadPerType ==
    \A rt \in RecordTypes :
        /\ Cardinality(Heads(rt)) <= 1
        /\ (SchemasOf(rt) # {} => Cardinality(Heads(rt)) = 1)

\* C3: with the creates run one after the other, the N schemas of a
\* RecordType carry exactly the versions 1..N, version k's next_version is
\* version k+1, version N's is null, no two schemas share a successor, and
\* the create in flight was given version N+1.
C3_SequentialChain ==
    \A rt \in RecordTypes :
        LET S == SchemasOf(rt)
            N == Cardinality(S)
        IN  /\ {schemas[pk].version : pk \in S} = 1..N
            /\ \A pk \in S :
                  IF schemas[pk].version = N
                  THEN schemas[pk].next_version = NULL
                  ELSE /\ schemas[pk].next_version \in S
                       /\ schemas[schemas[pk].next_version].version
                             = schemas[pk].version + 1
            /\ \A i \in S, j \in S :
                  (i # j /\ schemas[i].next_version # NULL)
                      => schemas[i].next_version # schemas[j].next_version
            /\ \A c \in Callers :
                  (pending[c].pc = "save" /\ pending[c].record_type = rt)
                      => pending[c].version = N + 1

\* A chain of three versions has been built for some RecordType.
C3_Witness ==
    \E rt \in RecordTypes : Cardinality(SchemasOf(rt)) >= 3

\* C4: no step changes the content, the version or the RecordType of a schema
\* that exists, none removes a schema, and a step adds at most one.
C4_SchemasImmutable ==
    [][/\ \A pk \in DOMAIN schemas :
             /\ pk \in DOMAIN schemas'
             /\ schemas'[pk].schema = schemas[pk].schema
             /\ schemas'[pk].version = schemas[pk].version
             /\ schemas'[pk].record_type = schemas[pk].record_type
       /\ Cardinality(DOMAIN schemas') <= Cardinality(DOMAIN schemas) + 1]_vars

\* A schema has been superseded by one with other content, and an update and
\* a delete of a schema have been asked for since the chain began.
C4_Witness ==
    /\ \E pk \in DOMAIN schemas :
          /\ schemas[pk].next_version # NULL
          /\ schemas[schemas[pk].next_version].schema # schemas[pk].schema
    /\ resp.op \in {"update_schema", "destroy_schema"}

\* C5: a record is bound at creation to a schema that is current then, and no
\* later step (a schema create least of all) binds it to another schema.
C5_RecordsStayBound ==
    [][/\ \A r \in DOMAIN records :
             /\ r \in DOMAIN records'
             /\ records'[r].schema = records[r].schema
       /\ \A r \in DOMAIN records' \ DOMAIN records :
             /\ records'[r].schema \in DOMAIN schemas
             /\ schemas[records'[r].schema].next_version = NULL]_vars

\* A record is bound to a version that two later versions have superseded.
C5_Witness ==
    \E r \in DOMAIN records :
        LET v == schemas[records[r].schema]
        IN  /\ v.next_version # NULL
            /\ schemas[v.next_version].next_version # NULL

\* C10: a create that finds two or more heads is answered with the error and
\* changes nothing; a create goes on to save only from at most one head, with
\* that head's version + 1, and with version 1 only when there is no head.
C10_MultipleHeadsFail ==
    [][/\ \A c \in Callers :
             (pending[c].pc = "idle" /\ pending'[c].pc = "save") =>
                 LET found == Heads(pending'[c].record_type)
                 IN  /\ Cardinality(found) <= 1
                     /\ (pending'[c].version = 1) <=> (found = {})
                     /\ \A h \in found :
                           /\ pending'[c].head = h
                           /\ pending'[c].version = schemas[h].version + 1
       /\ (resp' # resp /\ resp'.op = "create_schema" /\ resp'.status = 500) =>
             /\ Cardinality(Heads(resp'.record_type)) >= 2
             /\ resp'.error = "MultipleObjectsReturned"
             /\ UNCHANGED <<schemas, pending, records>>]_vars

\* A create has found two heads and has been answered with the error.
C10_Witness ==
    /\ resp.op = "create_schema"
    /\ resp.status = 500
    /\ Cardinality(Heads(resp.record_type)) >= 2

\* ---------------------------------------------------------- aggregations

ToddowPair(r) == <<Hour(records[r].occurred_from), WeekDay(records[r].occurred_from)>>

\* C6: toddow answers with one group per (hour 0..23, weekday 1..7) pair
\* found among the records that pass the filter, each with the number of
\* those records that have the pair (never 0), ordered by hour and then by
\* weekday.
C6_ToddowGroups ==
    [][(resp' # resp /\ resp'.op = "toddow") =>
          LET B == resp'.body
              P == filter_queryset(resp'.GET)
              Pairs == {ToddowPair(r) : r \in P}
          IN  /\ Len(B) = Cardinality(Pairs)
              /\ {<<B[i].tod, B[i].dow>> : i \in 1..Len(B)} = Pairs
              /\ \A i \in 1..Len(B) :
                    /\ B[i].tod \in 0..23
                    /\ B[i].dow \in 1..7
                    /\ B[i].count > 0
                    /\ B[i].count =
                          Cardinality({r \in P : ToddowPair(r) = <<B[i].tod, B[i].dow>>})
              /\ \A i \in 1..Len(B), j \in 1..Len(B) :
                    i < j => \/ B[i].tod < B[j].tod
                             \/ (B[i].tod = B[j].tod /\ B[i].dow < B[j].dow)]_vars

\* Records at hours 0, 0 and 13 on weekdays 2, 2 and 5 have been aggregated
\* into the two groups (0, 2): 2 and (13, 5): 1.
C6_Witness ==
    /\ resp.op = "toddow"
    /\ resp.body = <<[tod |-> 0, dow |-> 2, count |-> 2],
                     [tod |-> 13, dow |-> 5, count |-> 1]>>

WindowDays == [month |-> 30, quarter |-> 90, year |-> 365]

RecordsOfTypeWithin(rt, days) ==
    {r \in DOMAIN records :
        /\ schemas[records[r].schema].record_type = rt
        /\ records[r].occurred_from >= now - days * 24
        /\ records[r].occurred_from <= now}

\* C7: recent_counts answers, for each window, with the number of records
\* bound to any schema version of the RecordType whose occurred_from lies in
\* [now - window, now].
C7_RecentCounts ==
    [][(resp' # resp /\ resp'.op = "recent_counts") =>
          /\ DOMAIN resp'.body = {"month", "quarter", "year"}
          /\ \A label \in {"month", "quarter", "year"} :
                resp'.body[label] =
                    Cardinality(RecordsOfTypeWithin(resp'.record_type, WindowDays[label]))]_vars

\* The counts of a type have been given with records in the month under two
\* of its schema versions, a record of it outside the month, and a record of
\* another type.
C7_Witness ==
    /\ resp.op = "recent_counts"
    /\ resp.body["month"] = 2
    /\ resp.body["month"] = Cardinality(RecordsOfTypeWithin(resp.record_type, 30))
    /\ \E r1 \in RecordsOfTypeWithin(resp.record_type, 30),
          r2 \in RecordsOfTypeWithin(resp.record_type, 30) :
          records[r1].schema # records[r2].schema
    /\ \E r \in DOMAIN records :
          schemas[records[r].schema].record_type # resp.record_type

\* C8: a create of a Boundary whose label exists is answered 409 and leaves
\* the Boundaries and the BoundaryPolygons as they were; 409 is the answer to
\* nothing else.
C8_DuplicateLabelConflict ==
    [][(resp'.op = "create_boundary") =>
          /\ (resp'.label \in Labels(boundaries)) =>
                /\ resp'.status = 409
                /\ UNCHANGED <<boundaries, polygons>>
          /\ (resp' # resp /\ resp'.status = 409) => resp'.label \in Labels(boundaries)]_vars

\* A create under a label in use has been answered 409.
C8_Witness ==
    /\ resp.op = "create_boundary"
    /\ resp.status = 409
    /\ resp.label \in Labels(boundaries)
    /\ DOMAIN polygons # {}

\* C9: a record list asked with `query` is answered with the text of the
\* composed query, which names the filter's bounds, and with no records; one
\* asked without it with the records that pass the filter and no query text.
\* Neither changes any stored data.
C9_QueryDiagnostic ==
    [][(resp' # resp /\ resp'.op = "list_records") =>
          LET GET == resp'.GET
              B == resp'.body
          IN  /\ UNCHANGED <<schemas, pending, records, boundaries, polygons>>
              /\ IF "query" \in DOMAIN GET
                 THEN /\ DOMAIN B = {"query"}
                      /\ Len(B.query) > 0
                      /\ \A k \in DOMAIN GET \ {"query"} :
                            \E i \in 1..Len(B.query) : B.query[i] = ToString(GET[k])
                 ELSE /\ DOMAIN B = {"results"}
                      /\ {B.results[i].pk : i \in 1..Len(B.results)} = filter_queryset(GET)
                      /\ Len(B.results) = Cardinality(filter_queryset(GET))]_vars

\* The query text of a filtered list has been given while records that pass
\* the filter are stored.
C9_Witness ==
    /\ resp.op = "list_records"
    /\ "query" \in DOMAIN resp.GET
    /\ "occurred_min" \in DOMAIN resp.GET
    /\ filter_queryset(resp.GET) # {}

====
